---- MODULE Spec2Model ----
(***************************************************************************)
(* Model of the tram punctuality helpers of func_definitions.py (and of    *)
(* their copies in func_defs.py, which read the global table `trams`).     *)
(*                                                                         *)
(* Every function is a pure function of the observation table `data`.      *)
(* The table is a sequence of rows (table order matters: drop_duplicates   *)
(* keeps the last row per origin stop).  A behaviour picks a table, calls  *)
(* one function on it and runs it to its outcome: it returns a value,      *)
(* raises an exception, or never returns ("hangs").                        *)
(*                                                                         *)
(* Numbers produced by means and divisions are exact rationals             *)
(* [num, den]; NaN is [num |-> 0, den |-> 0].  Floating-point rounding of   *)
(* the means is not modelled.                                              *)
(***************************************************************************)
EXTENDS Integers, Sequences, FiniteSets, TLC

VARIABLES data, pc, call, stops, current_stop, result

vars == <<data, pc, call, stops, current_stop, result>>

(***************************************************************************)
(* Bounds of the model.                                                    *)
(***************************************************************************)
\* rows of the table in the route-traversal specification
MaxRowsRoute == 3
\* iterations of the while loop of stops_on_route the model follows
MaxSteps == 5

(***************************************************************************)
(* Generic helpers.                                                        *)
(***************************************************************************)
Range(s) == {s[i] : i \in 1..Len(s)}

SeqsUpTo(S, n) == UNION {[1..k -> S] : k \in 0..n}

NoDuplicates(s) == \A i, j \in 1..Len(s) : i # j => s[i] # s[j]

(***************************************************************************)
(* Stop codes, route labels, rows.                                         *)
(***************************************************************************)
StopCodes == {"A", "B", "C"}

\* A route label is the string "<first> - <last>", kept as its sequence of
\* tokens, blanks included.
Label(a, b) == <<a, " ", "-", " ", b>>

\* str.split(): the maximal runs of non-blank characters
Split(label) == SelectSeq(label, LAMBDA t : t # " ")

\* total_holdup is the data set's sum of the two holdups of the row
Row(linie, fw_lang, halt_kurz, halt_lang, von, nach, hs, ht, dat) ==
    [linie |-> linie, fw_lang |-> fw_lang, halt_kurz |-> halt_kurz,
     halt_lang |-> halt_lang, halt_kurz_von1 |-> von, halt_kurz_nach1 |-> nach,
     holdup_stop |-> hs, holdup_trajectory |-> ht, total_holdup |-> hs + ht,
     delay_after_trajectory |-> dat]

(***************************************************************************)
(* stops_on_route                                                          *)
(***************************************************************************)
first_stop(route) == Split(route)[1]

last_stop(route) == Split(route)[3]

\* df.drop_duplicates(subset="halt_kurz_von1", keep="first"): a row stays
\* when no earlier row has its origin stop
DropDuplicatesKeepFirst(df) ==
    LET Keep(i) == \A j \in 1..(i - 1) : df[j].halt_kurz_von1 # df[i].halt_kurz_von1
        F[i \in 0..Len(df)] ==
            IF i = 0 THEN <<>>
            ELSE IF Keep(i) THEN Append(F[i - 1], df[i]) ELSE F[i - 1]
    IN F[Len(df)]

\* df.drop_duplicates(subset="halt_kurz_von1", keep="last"): a row stays
\* when no later row has its origin stop
DropDuplicatesKeepLast(df) ==
    LET Keep(i) == \A j \in (i + 1)..Len(df) : df[j].halt_kurz_von1 # df[i].halt_kurz_von1
        F[i \in 0..Len(df)] ==
            IF i = 0 THEN <<>>
            ELSE IF Keep(i) THEN Append(F[i - 1], df[i]) ELSE F[i - 1]
    IN F[Len(df)]

\* data[data["fw_lang"]==route]: the rows of the route, in table order
RowsOfRoute(route, d) == SelectSeq(d, LAMBDA r : r.fw_lang = route)

\* the successor frame of a route, every route's rows taken
SuccessorFrameAllRoutes(route, d) == DropDuplicatesKeepLast(d)

\* lines 36-39: the rows of the route, one per origin stop, indexed by it
SuccessorFrame(route, d) ==
    DropDuplicatesKeepLast(RowsOfRoute(route, d))

\* the index of the frame after set_index("halt_kurz_von1")
FrameIndex(df) == {df[i].halt_kurz_von1 : i \in 1..Len(df)}

\* df.loc[stop][0]: the halt_kurz_nach1 of the row indexed by stop
Loc(df, stop) ==
    LET i == CHOOSE k \in 1..Len(df) : df[k].halt_kurz_von1 = stop
    IN df[i].halt_kurz_nach1

\* The outcome of a call: a value returned, an exception raised, or no
\* outcome at all when the call runs forever.
Returned(v) == [status |-> "returned", value |-> v]

Raised(exc, key) == [status |-> "raised", value |-> <<exc, key>>]

Hangs == [status |-> "hangs", value |-> <<>>]

NoResult == [status |-> "none", value |-> <<>>]

\* The while loop of lines 42-44 run from (current, acc).  The loop is
\* deterministic in (df, current): once it meets a stop it has appended
\* before, it repeats the same steps forever.
RECURSIVE Walk(_, _, _, _)
Walk(df, current, last, acc) ==
    IF current = last THEN Returned(acc)
    ELSE IF current \in Range(acc) THEN Hangs
    ELSE IF current \notin FrameIndex(df) THEN Raised("KeyError", current)
    ELSE Walk(df, Loc(df, current), last, Append(acc, current))

\* stops_on_route(route, data) as a function of its arguments
stops_on_route(route, d) ==
    Walk(SuccessorFrame(route, d), first_stop(route), last_stop(route), <<>>)

(***************************************************************************)
(* The call of stops_on_route, one loop iteration per step.                *)
(***************************************************************************)
Idle == pc = "idle"

\* lines 34-41
Call_stops_on_route(route) ==
    /\ Idle
    /\ pc' = "loop"
    /\ call' = [fn |-> "stops_on_route", route |-> route]
    /\ stops' = <<>>
    /\ current_stop' = first_stop(route)
    /\ UNCHANGED <<data, result>>

\* the iteration with lines 43 and 44 swapped: the successor is appended
Loop_iterationAppendsNext ==
    /\ pc = "loop"
    /\ current_stop # last_stop(call.route)
    /\ Len(stops) < MaxSteps
    /\ LET df == SuccessorFrame(call.route, data)
       IN /\ current_stop \in FrameIndex(df)
          /\ stops' = Append(stops, Loc(df, current_stop))
          /\ current_stop' = Loc(df, current_stop)
    /\ UNCHANGED <<data, pc, call, result>>

\* lines 42-44, one iteration whose lookup succeeds
Loop_iteration ==
    /\ pc = "loop"
    /\ current_stop # last_stop(call.route)
    /\ Len(stops) < MaxSteps
    /\ LET df == SuccessorFrame(call.route, data)
       IN /\ current_stop \in FrameIndex(df)
          /\ stops' = Append(stops, current_stop)
          /\ current_stop' = Loc(df, current_stop)
    /\ UNCHANGED <<data, pc, call, result>>

\* the failed lookup swallowed: the list built so far is returned
Loop_KeyErrorReturnsPartial ==
    /\ pc = "loop"
    /\ current_stop # last_stop(call.route)
    /\ Len(stops) < MaxSteps
    /\ current_stop \notin FrameIndex(SuccessorFrame(call.route, data))
    /\ stops' = Append(stops, current_stop)
    /\ pc' = "returned"
    /\ result' = Returned(Append(stops, current_stop))
    /\ UNCHANGED <<data, call, current_stop>>

\* lines 42-44, the iteration whose df.loc[current_stop] finds no row
Loop_KeyError ==
    /\ pc = "loop"
    /\ current_stop # last_stop(call.route)
    /\ Len(stops) < MaxSteps
    /\ current_stop \notin FrameIndex(SuccessorFrame(call.route, data))
    /\ stops' = Append(stops, current_stop)
    /\ pc' = "raised"
    /\ result' = Raised("KeyError", current_stop)
    /\ UNCHANGED <<data, call, current_stop>>

\* lines 42 and 45: the loop condition fails and the list is returned
Loop_exit ==
    /\ pc = "loop"
    /\ current_stop = last_stop(call.route)
    /\ pc' = "returned"
    /\ result' = Returned(stops)
    /\ UNCHANGED <<data, call, stops, current_stop>>

(***************************************************************************)
(* Specification of the route traversal: the table varies in the route     *)
(* label and in the origin and destination stop of each row.               *)
(***************************************************************************)
RouteLabels == {Label("A", "B"), Label("B", "A"), Label("A", "A")}

RouteRows ==
    {Row(1, fw, von, <<"x">>, von, nach, 0, 0, 0) :
        fw \in {Label("A", "B"), Label("B", "A")}, von \in StopCodes, nach \in StopCodes}

InitCommon ==
    /\ pc = "idle"
    /\ call = [fn |-> "none"]
    /\ stops = <<>>
    /\ current_stop = "none"
    /\ result = NoResult

InitRoute ==
    /\ data \in SeqsUpTo(RouteRows, MaxRowsRoute)
    /\ InitCommon

NextRoute ==
    \/ \E route \in RouteLabels : Call_stops_on_route(route)
    \/ Loop_iteration
    \/ Loop_KeyError
    \/ Loop_exit

SpecRoute == InitRoute /\ [][NextRoute]_vars

\* the step-by-step call and the function agree on every outcome
StepwiseAgrees ==
    /\ pc = "returned" /\ call.fn = "stops_on_route"
         => result = stops_on_route(call.route, data)
    /\ pc = "raised" /\ call.fn = "stops_on_route"
         => result = stops_on_route(call.route, data)
    /\ pc = "loop" /\ current_stop \in Range(stops)
         => stops_on_route(call.route, data) = Hangs

(***************************************************************************)
(* Numbers: exact rationals [num, den] in lowest terms with den > 0.       *)
(* A division by zero gives what numpy gives for floats: NaN for 0/0       *)
(* ([0, 0]), an infinity otherwise ([1, 0] or [-1, 0]).                     *)
(***************************************************************************)
Abs(x) == IF x < 0 THEN -x ELSE x

RECURSIVE GCD(_, _)
GCD(a, b) == IF b = 0 THEN a ELSE GCD(b, a % b)

Sign(x) == IF x < 0 THEN -1 ELSE IF x = 0 THEN 0 ELSE 1

Rat(n, d) ==
    IF d = 0 THEN [num |-> Sign(n), den |-> 0]
    ELSE LET g == GCD(Abs(n), Abs(d))
         IN [num |-> (Sign(d) * n) \div g, den |-> Abs(d) \div g]

NaN == [num |-> 0, den |-> 0]

IsNaN(a) == a = NaN

RAdd(a, b) ==
    IF a.den = 0 \/ b.den = 0
    THEN (IF a.den # 0 THEN b
          ELSE IF b.den # 0 THEN a
          ELSE IF a = b THEN a ELSE NaN)
    ELSE Rat(a.num * b.den + b.num * a.den, a.den * b.den)

RAbs(a) == [num |-> Abs(a.num), den |-> a.den]

\* a / k for an integer k
RDivInt(a, k) == IF a.den = 0 THEN (IF k = 0 THEN NaN ELSE [num |-> a.num * Sign(k), den |-> 0])
                 ELSE Rat(a.num, a.den * k)

\* a sum that skips NaN, as DataFrame.sum() does (skipna=True); 0 when empty
RECURSIVE RSum(_)
RSum(s) ==
    IF s = <<>> THEN Rat(0, 1)
    ELSE IF IsNaN(s[1]) THEN RSum(Tail(s))
    ELSE RAdd(s[1], RSum(Tail(s)))

RECURSIVE SumInts(_)
SumInts(s) == IF s = <<>> THEN 0 ELSE s[1] + SumInts(Tail(s))

(***************************************************************************)
(* contributions, number_of_stops, delay_along_route                       *)
(***************************************************************************)
HoldupColumns == <<"holdup_stop", "holdup_trajectory", "total_holdup">>

\* the values of a column of a frame, in row order
ColumnValues(df, col) == [i \in 1..Len(df) |-> df[i][col]]

\* the sum of a column over the rows of a group, not divided by their number
GroupSum(rows, col) == Rat(SumInts(ColumnValues(rows, col)), 1)

\* GroupBy.mean() of one column over the rows of one group
GroupMean(rows, col) == Rat(SumInts(ColumnValues(rows, col)), Len(rows))

\* line 56: df.groupby(["halt_kurz_von1","halt_lang"]).mean(), one row per
\* pair of keys that occurs; lines 57-58 make halt_kurz_von1 the index.
\* (The order of the groups is not kept: reindex replaces it.)
GroupedMeans(df) ==
    {LET rows == SelectSeq(df, LAMBDA r : r.halt_kurz_von1 = k[1] /\ r.halt_lang = k[2])
     IN [halt_kurz_von1 |-> k[1], halt_lang |-> k[2],
         holdup_stop |-> GroupMean(rows, "holdup_stop"),
         holdup_trajectory |-> GroupMean(rows, "holdup_trajectory"),
         total_holdup |-> GroupMean(rows, "total_holdup")] :
     k \in {<<df[i].halt_kurz_von1, df[i].halt_lang>> : i \in 1..Len(df)}}

\* whether the index of the grouped frame holds no label twice
IndexIsUnique(conts) ==
    \A g, h \in conts : g.halt_kurz_von1 = h.halt_kurz_von1 => g = h

\* the row reindex inserts for a label the frame does not hold
NullRow(stop) ==
    [halt_kurz_von1 |-> stop, halt_lang |-> "NaN",
     holdup_stop |-> NaN, holdup_trajectory |-> NaN, total_holdup |-> NaN]

\* line 60: conts.reindex(stops_in_order) on a frame whose index is unique
Reindex(conts, stops_in_order) ==
    [i \in 1..Len(stops_in_order) |->
        IF \E g \in conts : g.halt_kurz_von1 = stops_in_order[i]
        THEN CHOOSE g \in conts : g.halt_kurz_von1 = stops_in_order[i]
        ELSE NullRow(stops_in_order[i])]

\* lines 54-61.  stops_on_route (line 59) is called before reindex, so its
\* error or its endless loop comes first.  reindex refuses a frame whose
\* index holds a label twice ("cannot reindex on an axis with duplicate
\* labels") as soon as it is asked for at least one label.
contributions(route, d) ==
    LET conts == GroupedMeans(RowsOfRoute(route, d))
        stops_in_order == stops_on_route(route, d)
    IN IF stops_in_order.status # "returned" THEN stops_in_order
       ELSE IF ~IndexIsUnique(conts) /\ stops_in_order.value # <<>>
            THEN Raised("ValueError", "duplicate labels")
       ELSE Returned(Reindex(conts, stops_in_order.value))

\* lines 92-93
number_of_stops(route, d) ==
    LET conts == contributions(route, d)
    IN IF conts.status # "returned" THEN conts ELSE Returned(Len(conts.value))

\* lines 113-118
HoldupIndex(which_holdup) ==
    IF which_holdup = "at_stop" THEN 0
    ELSE IF which_holdup = "on_trajectory" THEN 1
    ELSE 2

\* the aggregate with conts.abs() left out whatever `absolute` says
AggregateNeverAbs(conts, idx, absolute) ==
    RSum([i \in 1..Len(conts) |-> conts[i][HoldupColumns[idx + 1]]])

\* the aggregate with conts.abs() applied whatever `absolute` says
AggregateAlwaysAbs(conts, idx, absolute) ==
    RSum([i \in 1..Len(conts) |-> RAbs(conts[i][HoldupColumns[idx + 1]])])

\* lines 121-127: halt_lang dropped, abs() when absolute, the column sums,
\* the idx-th of them
Aggregate(conts, idx, absolute) ==
    LET col == HoldupColumns[idx + 1]
        vals == [i \in 1..Len(conts) |->
                    IF absolute THEN RAbs(conts[i][col]) ELSE conts[i][col]]
    IN RSum(vals)

\* lines 95-128
delay_along_route(route, d, which_holdup, absolute) ==
    LET conts == contributions(route, d)
    IN IF conts.status # "returned" THEN conts
       ELSE Returned(Aggregate(conts.value, HoldupIndex(which_holdup), absolute))

\* A call that is not followed step by step: the whole call is one step,
\* to its outcome.
Finish(c, outcome) ==
    /\ Idle
    /\ call' = c
    /\ pc' = outcome.status
    /\ result' = outcome
    /\ UNCHANGED <<data, stops, current_stop>>

Call_contributions(route) ==
    Finish([fn |-> "contributions", route |-> route], contributions(route, data))

Call_number_of_stops(route) ==
    Finish([fn |-> "number_of_stops", route |-> route], number_of_stops(route, data))

Call_delay_along_route(route, which_holdup, absolute) ==
    Finish([fn |-> "delay_along_route", route |-> route,
            which_holdup |-> which_holdup, absolute |-> absolute],
           delay_along_route(route, data, which_holdup, absolute))

(***************************************************************************)
(* Specification of the aggregation along a route: the table varies in     *)
(* the segment, the long name and the holdups of the rows of "A - B";      *)
(* rows of "B - A" stand for the other routes of the table.                *)
(***************************************************************************)
\* rows of the table in the aggregation specification
MaxRowsConts == 3

WhichHoldup == {"at_stop", "on_trajectory", "total"}

Segments == {<<"A", "C">>, <<"C", "B">>, <<"A", "B">>}

Holdups == {<<2, -1>>, <<-3, 1>>}

ContsRows ==
    {Row(1, Label("A", "B"), seg[1], lang, seg[1], seg[2], h[1], h[2], 0) :
        seg \in Segments, lang \in {<<"x">>, <<"y">>}, h \in Holdups}
    \cup
    {Row(1, Label("B", "A"), "A", <<"x">>, "A", "B", h[1], h[2], 0) : h \in Holdups}

ContsLabels == {Label("A", "B"), Label("B", "A"), Label("A", "A")}

InitConts ==
    /\ data \in SeqsUpTo(ContsRows, MaxRowsConts)
    /\ InitCommon

NextConts ==
    \/ \E route \in ContsLabels : Call_contributions(route)
    \/ \E route \in ContsLabels : Call_number_of_stops(route)
    \/ \E route \in ContsLabels, wh \in WhichHoldup, absolute \in BOOLEAN :
          Call_delay_along_route(route, wh, absolute)

SpecConts == InitConts /\ [][NextConts]_vars

(***************************************************************************)
(* main_routes_of_line                                                     *)
(***************************************************************************)
\* data[data["linie"]==line]
RowsOfLine(line, d) == SelectSeq(d, LAMBDA r : r.linie = line)

\* the number of rows of the frame with the route label
RouteCount(df, label) == Len(SelectSeq(df, LAMBDA r : r.fw_lang = label))

Orderings(S) ==
    {p \in [1..Cardinality(S) -> S] : \A i, j \in 1..Cardinality(S) : i # j => p[i] # p[j]}

\* the distinct labels ordered by ascending count
ValueCountsAscending(df) ==
    {p \in Orderings({df[i].fw_lang : i \in 1..Len(df)}) :
        \A i \in 1..(Len(p) - 1) : RouteCount(df, p[i]) <= RouteCount(df, p[i + 1])}

\* The index of df["fw_lang"].value_counts(): the distinct labels ordered
\* by descending count.  The order among labels of equal count is the
\* sort's choice: every such order is a possible index.
ValueCounts(df) ==
    {p \in Orderings({df[i].fw_lang : i \in 1..Len(df)}) :
        \A i \in 1..(Len(p) - 1) : RouteCount(df, p[i]) >= RouteCount(df, p[i + 1])}

\* .head(n)
head(s, n) == SubSeq(s, 1, IF Len(s) < n THEN Len(s) ELSE n)

\* lines 15-16: the arrays the call may return
main_routes_of_line(line, d) == {head(p, 2) : p \in ValueCounts(RowsOfLine(line, d))}

Call_main_routes_of_line(line) ==
    \E routes \in main_routes_of_line(line, data) :
        Finish([fn |-> "main_routes_of_line", line |-> line], Returned(routes))

(***************************************************************************)
(* measure_of_delay_line                                                   *)
(***************************************************************************)
\* what a Python function returns when it falls off its end
None == [none |-> TRUE]

\* lines 156-161: the measure one iteration appends for its route
RouteMeasure(route, d, which_holdup, absolute, per_stop) ==
    LET num == delay_along_route(route, d, which_holdup, absolute)
        den == number_of_stops(route, d)
    IN IF num.status # "returned" THEN num
       ELSE IF den.status # "returned" THEN den
       ELSE IF per_stop THEN Returned(RDivInt(num.value, den.value))
       ELSE Returned(num.value)

\* Python's sum(measures): the elements added from 0, NaN not skipped
RECURSIVE PySum(_)
PySum(s) == IF s = <<>> THEN Rat(0, 1) ELSE RAdd(s[1], PySum(Tail(s)))

\* the function with the return statement after the loop: every route's
\* measure is appended and the average of all is returned
measure_of_delay_lineAfterLoop(routes, d, which_holdup, absolute, per_stop) ==
    LET each == [i \in 1..Len(routes) |->
                    RouteMeasure(routes[i], d, which_holdup, absolute, per_stop)]
        failed == {i \in 1..Len(routes) : each[i].status # "returned"}
    IN IF failed # {} THEN each[CHOOSE i \in failed : \A j \in failed : i <= j]
       ELSE IF routes = <<>> THEN Raised("ZeroDivisionError", "division by zero")
       ELSE Returned(RDivInt(PySum([i \in 1..Len(routes) |-> each[i].value]), Len(routes)))

\* lines 154-162 for the routes main_routes_of_line returned: the return
\* statement stands inside the loop body, so the first iteration returns;
\* with no route the body never runs and the function returns None.
measure_of_delay_line(routes, d, which_holdup, absolute, per_stop) ==
    IF routes = <<>> THEN Returned(None)
    ELSE LET first == RouteMeasure(routes[1], d, which_holdup, absolute, per_stop)
         IN IF first.status # "returned" THEN first
            ELSE LET measures == <<first.value>>
                 IN Returned(RDivInt(PySum(measures), Len(measures)))

Call_measure_of_delay_line(line, which_holdup, absolute, per_stop) ==
    \E routes \in main_routes_of_line(line, data) :
        Finish([fn |-> "measure_of_delay_line", line |-> line, routes |-> routes,
                which_holdup |-> which_holdup, absolute |-> absolute,
                per_stop |-> per_stop],
               measure_of_delay_line(routes, data, which_holdup, absolute, per_stop))

(***************************************************************************)
(* table_lines                                                             *)
(***************************************************************************)
\* The arrays main_routes_of_line returns for the lines of the table: one
\* choice per line (the same table gives the same array in both calls
\* that table_lines makes for a line).
RoutesChoices(lines, d) ==
    {f \in [Range(lines) -> UNION {main_routes_of_line(l, d) : l \in Range(lines)}] :
        \A l \in Range(lines) : f[l] \in main_routes_of_line(l, d)}

\* the outcomes of calls made one after the other: the first that does not
\* return ends the caller, otherwise the caller has every returned value
InOrder(outcomes) ==
    LET failed == {i \in 1..Len(outcomes) : outcomes[i].status # "returned"}
    IN IF failed # {} THEN outcomes[CHOOSE i \in failed : \A j \in failed : i <= j]
       ELSE Returned([i \in 1..Len(outcomes) |-> outcomes[i].value])

\* lines 183-186: the two measures of one line; line 185 passes no
\* per_stop, so the deviation is taken with the default per_stop=True
LineEntries(routes, d, which_holdup, per_stop) ==
    InOrder(<<measure_of_delay_line(routes, d, which_holdup, FALSE, per_stop),
              measure_of_delay_line(routes, d, which_holdup, TRUE, TRUE)>>)

\* lines 187-189: the frame of the lists lines, delays and deviations
TableFrame(lines, entries) ==
    IF entries.status # "returned" THEN entries
    ELSE Returned([i \in 1..Len(lines) |->
                     [Line |-> lines[i], Delay |-> entries.value[i][1],
                      Deviation |-> entries.value[i][2]]])

\* lines 180-189: the loop over the lines stops at the first call that
\* does not return; otherwise the table has one row per line
table_lines(lines, routes_of, d, which_holdup, per_stop) ==
    TableFrame(lines, InOrder([i \in 1..Len(lines) |->
                  LineEntries(routes_of[lines[i]], d, which_holdup, per_stop)]))

Call_table_lines(lines, which_holdup, per_stop) ==
    \E routes_of \in RoutesChoices(lines, data) :
        Finish([fn |-> "table_lines", lines |-> lines, routes_of |-> routes_of,
                which_holdup |-> which_holdup, per_stop |-> per_stop],
               table_lines(lines, routes_of, data, which_holdup, per_stop))

(***************************************************************************)
(* Specification of the route selection: the table varies in the line and  *)
(* the route label of its rows.                                            *)
(***************************************************************************)
\* rows of the table in the route-selection specification
MaxRowsSelect == 4

Lines == {1, 2}

SelectRows ==
    {Row(line, Label(e[1], e[2]), e[1], <<"x">>, e[1], e[2], 0, 0, 0) :
        line \in Lines, e \in {<<"A", "B">>, <<"B", "A">>, <<"A", "C">>}}

InitSelect ==
    /\ data \in SeqsUpTo(SelectRows, MaxRowsSelect)
    /\ InitCommon

NextSelect == \E line \in Lines : Call_main_routes_of_line(line)

SpecSelect == InitSelect /\ [][NextSelect]_vars

(***************************************************************************)
(* Specification of the measure of a line: line 1 has the route "A - B",   *)
(* of one or two stops, and the opposite route "B - A"; the rows vary in   *)
(* the segment and the holdups.  Line 2 has one row, line 3 none.          *)
(***************************************************************************)
\* rows of the table in the line specification
MaxRowsLine == 3

LineRows ==
    {Row(1, Label("A", "B"), seg[1], <<"x">>, seg[1], seg[2], h[1], h[2], 0) :
        seg \in Segments, h \in Holdups}
    \cup
    {Row(1, Label("B", "A"), "B", <<"y">>, "B", "A", h[1], h[2], 0) : h \in Holdups}
    \cup
    {Row(2, Label("A", "B"), "A", <<"x">>, "A", "B", 1, 1, 0)}

InitLine ==
    /\ data \in SeqsUpTo(LineRows, MaxRowsLine)
    /\ InitCommon

NextLine ==
    \E line \in {1, 2, 3}, wh \in WhichHoldup, absolute \in BOOLEAN, per_stop \in BOOLEAN :
        Call_measure_of_delay_line(line, wh, absolute, per_stop)

SpecLine == InitLine /\ [][NextLine]_vars

(***************************************************************************)
(* Specification of table_lines: a data set of a few measurements of       *)
(* lines 1 and 2 and one call with a list of lines.                        *)
(***************************************************************************)
MaxRowsTable == 2

TableRows ==
    {Row(1, Label("A", "B"), seg[1], <<"x">>, seg[1], seg[2], h[1], h[2], 0) :
        seg \in Segments, h \in Holdups}
    \cup
    {Row(1, Label("B", "A"), "B", <<"y">>, "B", "A", 1, 1, 0),
     Row(2, Label("A", "B"), "A", <<"x">>, "A", "B", 1, 1, 0)}

InitTable ==
    /\ data \in SeqsUpTo(TableRows, MaxRowsTable)
    /\ InitCommon

NextTable ==
    \E lines \in {<<1>>, <<2, 1>>, <<3>>}, wh \in WhichHoldup, per_stop \in BOOLEAN :
        Call_table_lines(lines, wh, per_stop)

SpecTable == InitTable /\ [][NextTable]_vars

(***************************************************************************)
(* freq_major_delays_route                                                 *)
(***************************************************************************)
\* 100 * m / n cut to two decimals instead of rounded
PercentageTruncated(m, n) == Rat((10000 * m) \div n, 100)

\* lines 370-371 for n # 0: round((m / n) * 100, 2), to the nearest
\* hundredth, a tie to the even one
Percentage(m, n) ==
    LET q == (10000 * m) \div n
        rem == (10000 * m) % n
        up == 2 * rem > n \/ (2 * rem = n /\ q % 2 = 1)
    IN Rat(IF up THEN q + 1 ELSE q, 100)

\* lines 350-371
freq_major_delays_route(route, d, cutoff, per_stop, what) ==
    LET stops_on_this_route == stops_on_route(route, d)
    IN IF stops_on_this_route.status # "returned" THEN stops_on_this_route
       ELSE LET length_of_route == Len(stops_on_this_route.value)
            IN IF length_of_route < 2 THEN Raised("IndexError", "stops_on_this_route[-2]")
               ELSE
       LET penultimate_stop == stops_on_this_route.value[length_of_route - 1]
           df == SelectSeq(RowsOfRoute(route, d), LAMBDA r : r.halt_kurz = penultimate_stop)
           threshold == IF per_stop THEN cutoff * length_of_route ELSE cutoff
           number_observations == Len(df)
           major ==
               IF what = "deviation"
               THEN SelectSeq(df, LAMBDA r : \/ r.delay_after_trajectory > threshold
                                             \/ r.delay_after_trajectory < -threshold)
               ELSE SelectSeq(df, LAMBDA r : r.delay_after_trajectory > threshold)
           number_major_delays == Len(major)
       IN IF number_observations = 0 THEN Raised("ZeroDivisionError", "division by zero")
          ELSE Returned(<<number_observations, number_major_delays,
                          Percentage(number_major_delays, number_observations)>>)

Call_freq_major_delays_route(route, cutoff, per_stop, what) ==
    Finish([fn |-> "freq_major_delays_route", route |-> route, cutoff |-> cutoff,
            per_stop |-> per_stop, what |-> what],
           freq_major_delays_route(route, data, cutoff, per_stop, what))

(***************************************************************************)
(* Specification of the frequency of major delays: the rows of "A - B"     *)
(* vary in the segment, the stop they are recorded at and the delay.       *)
(***************************************************************************)
\* rows of the table in the frequency specification
MaxRowsFreq == 3

Delays == {-5, 0, 5}

Cutoffs == {-1, 2}

FreqRows ==
    {Row(1, Label("A", "B"), kurz, <<"x">>, seg[1], seg[2], 0, 0, dat) :
        kurz \in {"A", "C"}, seg \in {<<"A", "C">>, <<"C", "B">>}, dat \in Delays}
    \cup
    {Row(1, Label("B", "A"), "A", <<"x">>, "B", "A", 0, 0, 5)}

InitFreq ==
    /\ data \in SeqsUpTo(FreqRows, MaxRowsFreq)
    /\ InitCommon

NextFreq ==
    \E route \in {Label("A", "B"), Label("B", "A")}, cutoff \in Cutoffs,
       per_stop \in BOOLEAN, what \in {"delay", "deviation"} :
        Call_freq_major_delays_route(route, cutoff, per_stop, what)

SpecFreq == InitFreq /\ [][NextFreq]_vars

(***************************************************************************)
(* freq_major_holdups_stop                                                 *)
(***************************************************************************)
\* lines 417-425: the column which_holdup selects
HoldupColumn(which_holdup) == HoldupColumns[HoldupIndex(which_holdup) + 1]

\* lines 427-430: the rows of df counted as major holdups
MajorHoldups(df, col, cutoff, what) ==
    IF what = "deviation"
    THEN SelectSeq(df, LAMBDA r : r[col] > cutoff \/ r[col] < (-1) * cutoff)
    ELSE SelectSeq(df, LAMBDA r : r[col] > cutoff)

\* line 433: (num_maj_obs / num_obs) * 100 of two Python ints
Share(num_maj_obs, num_obs) ==
    IF num_obs = 0 THEN Raised("ZeroDivisionError", "division by zero")
    ELSE Returned(Rat(100 * num_maj_obs, num_obs))

\* lines 407-433 for the array main_routes_of_line returned.  `stop` is a
\* text: a short code is the text of that one piece.
freq_major_holdups_stop(routes, stop, cutoff, d, what, reverse, which_holdup) ==
    LET position == IF reverse THEN 2 ELSE 1
    IN IF Len(routes) < position THEN Raised("IndexError", "routes")
       ELSE LET df == SelectSeq(RowsOfRoute(routes[position], d),
                                LAMBDA r : <<r.halt_kurz>> = stop \/ r.halt_lang = stop)
            IN Share(Len(MajorHoldups(df, HoldupColumn(which_holdup), cutoff, what)), Len(df))

Call_freq_major_holdups_stop(line, stop, cutoff, what, reverse, which_holdup) ==
    \E routes \in main_routes_of_line(line, data) :
        Finish([fn |-> "freq_major_holdups_stop", line |-> line, routes |-> routes,
                stop |-> stop, cutoff |-> cutoff, what |-> what, reverse |-> reverse,
                which_holdup |-> which_holdup],
               freq_major_holdups_stop(routes, stop, cutoff, data, what, reverse,
                                       which_holdup))

(***************************************************************************)
(* Specification of the calls that divide by a count: a small table of     *)
(* line 1 whose rows vary in the stop they are recorded at, and one call   *)
(* of freq_major_holdups_stop, freq_major_delays_route or                  *)
(* measure_of_delay_line.  Line 3 has no row.                              *)
(***************************************************************************)
MaxRowsZero == 2

ZeroRows ==
    {Row(1, Label("A", "B"), kurz, <<"x">>, seg[1], seg[2], h[1], h[2], 5) :
        kurz \in {"A", "C"}, seg \in {<<"A", "C">>, <<"C", "B">>}, h \in Holdups}
    \cup
    {Row(1, Label("B", "A"), "B", <<"y">>, "B", "A", 1, 1, 5)}

InitZero ==
    /\ data \in SeqsUpTo(ZeroRows, MaxRowsZero)
    /\ InitCommon

NextZero ==
    \/ \E line \in {1, 3}, stop \in {<<"A">>, <<"x">>, <<"B">>}, cutoff \in Cutoffs,
          what \in {"delay", "deviation"}, reverse \in BOOLEAN :
          Call_freq_major_holdups_stop(line, stop, cutoff, what, reverse, "total")
    \/ \E route \in {Label("A", "B"), Label("B", "A")}, per_stop \in BOOLEAN,
          what \in {"delay", "deviation"} :
          Call_freq_major_delays_route(route, 2, per_stop, what)
    \/ \E line \in {1, 3}, absolute \in BOOLEAN, per_stop \in BOOLEAN :
          Call_measure_of_delay_line(line, "total", absolute, per_stop)

SpecZero == InitZero /\ [][NextZero]_vars

(***************************************************************************)
(* freq_major_delays_line                                                  *)
(***************************************************************************)
\* the mean of the two routes' own percentages
AveragedPercentage(counts) ==
    IF counts.status # "returned" THEN counts
    ELSE Returned(RDivInt(RAdd(Rat(100 * counts.value[1][2], counts.value[1][1]),
                               Rat(100 * counts.value[2][2], counts.value[2][1])), 2))

\* lines 608-610 on the tuples freq_major_delays_route returned for the
\* two routes: [0] is number_observations, [1] number_major_delays; every
\* number_observations is positive, so the division is defined
PooledPercentage(counts) ==
    IF counts.status # "returned" THEN counts
    ELSE Returned(Rat(100 * (counts.value[1][2] + counts.value[2][2]),
                      counts.value[1][1] + counts.value[2][1]))

\* lines 607-610 for the array main_routes_of_line returned: line 607
\* unpacks it into exactly two names; line 608 calls freq_major_delays_route
\* for one_route, then for other_route (line 609 repeats the two calls)
freq_major_delays_line(routes, d, cutoff, per_stop, what) ==
    IF Len(routes) # 2 THEN Raised("ValueError", "not enough values to unpack")
    ELSE PooledPercentage(InOrder(<<freq_major_delays_route(routes[1], d, cutoff, per_stop, what),
                                    freq_major_delays_route(routes[2], d, cutoff, per_stop, what)>>))

Call_freq_major_delays_line(line, cutoff, per_stop, what) ==
    \E routes \in main_routes_of_line(line, data) :
        Finish([fn |-> "freq_major_delays_line", line |-> line, routes |-> routes,
                cutoff |-> cutoff, per_stop |-> per_stop, what |-> what],
               freq_major_delays_line(routes, data, cutoff, per_stop, what))

(***************************************************************************)
(* Specification of freq_major_delays_line: measurements of line 1 on the  *)
(* routes "A - B" and "B - A", both by way of C, and one call.  Line 2 has *)
(* no row.                                                                 *)
(***************************************************************************)
MaxRowsFreqLine == 5

FreqLineRows ==
    {Row(1, Label("A", "B"), "A", <<"x">>, "A", "C", 0, 0, dat) : dat \in {0, 5}}
    \cup
    {Row(1, Label("A", "B"), "C", <<"z">>, "C", "B", 0, 0, 0),
     Row(1, Label("B", "A"), "B", <<"y">>, "B", "C", 0, 0, 5),
     Row(1, Label("B", "A"), "C", <<"z">>, "C", "A", 0, 0, 0)}

InitFreqLine ==
    /\ data \in SeqsUpTo(FreqLineRows, MaxRowsFreqLine)
    /\ InitCommon

NextFreqLine ==
    \E line \in {1, 2}, per_stop \in BOOLEAN, what \in {"delay", "deviation"} :
        Call_freq_major_delays_line(line, 2, per_stop, what)

SpecFreqLine == InitFreqLine /\ [][NextFreqLine]_vars

(***************************************************************************)
(* convert_short_to_long                                                   *)
(***************************************************************************)
\* A long name is the sequence of its pieces: the city prefix "Zürich,",
\* a blank, or a piece of the name proper.
\* s.replace(pat, ""): every occurrence of pat, from the left, removed
RECURSIVE Replace(_, _)
Replace(s, pat) ==
    IF Len(s) < Len(pat) THEN s
    ELSE IF SubSeq(s, 1, Len(pat)) = pat THEN Replace(SubSeq(s, Len(pat) + 1, Len(s)), pat)
    ELSE <<s[1]>> \o Replace(Tail(s), pat)

\* line 24
StripCity(halt_lang) == Replace(Replace(halt_lang, <<"Zürich,", " ">>), <<"Zürich,">>)

\* lines 22-24: the series of stripped long names indexed by halt_kurz
NameSeries(d) ==
    [i \in 1..Len(d) |-> [halt_kurz |-> d[i].halt_kurz, halt_lang |-> StripCity(d[i].halt_lang)]]

\* line 25: Series.drop_duplicates() keeps an entry when no earlier entry
\* has its VALUE (the index does not count)
DropDuplicateValues(ser) ==
    LET Keep(i) == \A j \in 1..(i - 1) : ser[j].halt_lang # ser[i].halt_lang
        F[i \in 0..Len(ser)] ==
            IF i = 0 THEN <<>>
            ELSE IF Keep(i) THEN Append(F[i - 1], ser[i]) ELSE F[i - 1]
    IN F[Len(ser)]

\* line 26: stops.loc[name] gives the value when one entry has the label,
\* the sub-series when several have it, and raises KeyError when none has
SeriesLoc(ser, name) ==
    LET hits == SelectSeq(ser, LAMBDA e : e.halt_kurz = name)
    IN IF hits = <<>> THEN Raised("KeyError", name)
       ELSE IF Len(hits) = 1 THEN Returned([name |-> hits[1].halt_lang])
       ELSE Returned([series |-> [i \in 1..Len(hits) |-> hits[i].halt_lang]])

\* lines 19-26
convert_short_to_long(name, d) == SeriesLoc(DropDuplicateValues(NameSeries(d)), name)

Call_convert_short_to_long(name) ==
    Finish([fn |-> "convert_short_to_long", name |-> name], convert_short_to_long(name, data))

(***************************************************************************)
(* Specification of the stop names: the rows vary in the short code and    *)
(* the long name.                                                          *)
(***************************************************************************)
\* rows of the table in the stop-name specification
MaxRowsStops == 3

LongNames == {<<"Zürich,", " ", "x">>, <<"Zürich,", "x">>, <<"x">>, <<"y">>}

StopsRows ==
    {Row(1, Label("A", "B"), kurz, lang, "A", "B", 0, 0, 0) :
        kurz \in {"A", "B"}, lang \in LongNames}

InitStops ==
    /\ data \in SeqsUpTo(StopsRows, MaxRowsStops)
    /\ InitCommon

NextStops == \E name \in StopCodes : Call_convert_short_to_long(name)

SpecStops == InitStops /\ [][NextStops]_vars

(***************************************************************************)
(* Properties of stops_on_route (SpecRoute).                               *)
(***************************************************************************)
\* the largest element of a non-empty set of integers
Max(S) == CHOOSE x \in S : \A y \in S : y <= x

\* positions of the rows of the route whose origin stop is s
RowsOfStop(route, s) ==
    {i \in 1..Len(data) : data[i].fw_lang = route /\ data[i].halt_kurz_von1 = s}

\* the destination of s under the last-write-wins successor mapping
LastWriteDestination(route, s) == data[Max(RowsOfStop(route, s))].halt_kurz_nach1

stops_on_route_returned == pc = "returned" /\ call.fn = "stops_on_route"

\* the list follows the last-write-wins mapping from A to just before B
FollowsSuccessors(route, s) ==
    /\ s # <<>>
    /\ s[1] = first_stop(route)
    /\ last_stop(route) \notin Range(s)
    /\ \A i \in 1..Len(s) : RowsOfStop(route, s[i]) # {}
    /\ \A i \in 1..(Len(s) - 1) : LastWriteDestination(route, s[i]) = s[i + 1]
    /\ LastWriteDestination(route, s[Len(s)]) = last_stop(route)

\* C1 as stated: whenever stops_on_route returns for "A - B", the list
\* starts with A, never contains B, each element but the last is followed
\* by its last-write-wins destination, and the last element's destination
\* is B.
C1_AsStated ==
    stops_on_route_returned => FollowsSuccessors(call.route, result.value)

\* C1 amended: the same for every label "A - B" with A # B; for a label
\* "A - A" stops_on_route returns the empty list.
C1_Linearization ==
    stops_on_route_returned =>
        IF first_stop(call.route) # last_stop(call.route)
        THEN FollowsSuccessors(call.route, result.value)
        ELSE result.value = <<>>

\* a call returned a list of two stops for a label with distinct end stops
C1_Witness ==
    /\ stops_on_route_returned
    /\ first_stop(call.route) # last_stop(call.route)
    /\ Len(result.value) >= 2

\* C2: the traversal is bounded; it never appends a stop a second time
\* (a deterministic loop that meets a stop again never ends), it fails
\* with an error instead.
C2_TraversalBounded ==
    call.fn = "stops_on_route" => NoDuplicates(stops)

\* C8: the successor the loop moves to from stop S is the halt_kurz_nach1
\* of the last row, in table order, with fw_lang = R and
\* halt_kurz_von1 = S.
C8_LastRowWins ==
    (call.fn = "stops_on_route" /\ pc \in {"loop", "returned"} /\ stops # <<>>)
        => current_stop = LastWriteDestination(call.route, stops[Len(stops)])

\* the loop moved on from a stop that has two rows with different
\* destinations on the route, and a later row on another route
C8_Witness ==
    /\ call.fn = "stops_on_route" /\ pc \in {"loop", "returned"} /\ stops # <<>>
    /\ LET s == stops[Len(stops)]
           rows == RowsOfStop(call.route, s)
       IN /\ \E i, j \in rows : data[i].halt_kurz_nach1 # data[j].halt_kurz_nach1
          /\ \E k \in 1..Len(data) :
                /\ k > Max(rows)
                /\ data[k].halt_kurz_von1 = s
                /\ data[k].fw_lang # call.route
                /\ data[k].halt_kurz_nach1 # current_stop

(***************************************************************************)
(* Properties of contributions and delay_along_route (SpecConts).          *)
(***************************************************************************)
\* the index of a frame that contributions returned, read in order
IndexOf(conts) == [i \in 1..Len(conts) |-> conts[i].halt_kurz_von1]

\* C3: for every route R on which stops_on_route returns, contributions(R)
\* returns a frame whose index, read in order, is stops_on_route(R) element
\* by element (so it has as many rows), also when a stop code of the route
\* has more than one halt_lang; number_of_stops(R) is that length.
C3_IndexIsRoute ==
    LET stops_in_order == stops_on_route(call.route, data)
    IN /\ (call.fn = "contributions" /\ stops_in_order.status = "returned")
            => /\ result.status = "returned"
               /\ IndexOf(result.value) = stops_in_order.value
       /\ (call.fn = "number_of_stops" /\ stops_in_order.status = "returned")
            => result = Returned(Len(stops_in_order.value))

\* C4: with absolute=False, when delay_along_route(R, "total") returns, so
\* do delay_along_route(R, "at_stop") and delay_along_route(R,
\* "on_trajectory"), and it equals their sum.
C4_Additivity ==
    (/\ call.fn = "delay_along_route"
     /\ call.which_holdup = "total"
     /\ ~call.absolute
     /\ result.status = "returned")
    => LET at_stop == delay_along_route(call.route, data, "at_stop", FALSE)
           on_trajectory == delay_along_route(call.route, data, "on_trajectory", FALSE)
       IN /\ at_stop.status = "returned"
          /\ on_trajectory.status = "returned"
          /\ result.value = RAdd(at_stop.value, on_trajectory.value)

\* the total delay of a route of two stops came out as a fraction, from
\* holdups at stops and on trajectories that are not zero
C4_Witness ==
    /\ call.fn = "delay_along_route"
    /\ call.which_holdup = "total"
    /\ ~call.absolute
    /\ result.status = "returned"
    /\ result.value.den > 1
    /\ number_of_stops(call.route, data) = Returned(2)
    /\ delay_along_route(call.route, data, "at_stop", FALSE).value.num < 0
    /\ delay_along_route(call.route, data, "on_trajectory", FALSE).value.num > 0

RECURSIVE SumOver(_, _)
\* the sum of a column over the rows of the table at the positions S
SumOver(S, col) ==
    IF S = {} THEN 0
    ELSE LET i == CHOOSE x \in S : TRUE
         IN data[i][col] + SumOver(S \ {i}, col)

\* the arithmetic mean of a column over all rows of the route at stop s
MeanAtStop(route, s, col) ==
    Rat(SumOver(RowsOfStop(route, s), col), Cardinality(RowsOfStop(route, s)))

\* C9: in the frame contributions(R) returns, every stop S of the index
\* holds, in each of the three holdup columns, the arithmetic mean of that
\* column over all rows with fw_lang = R and halt_kurz_von1 = S.
C9_MeanPerStop ==
    (call.fn = "contributions" /\ result.status = "returned")
    => \A i \in 1..Len(result.value) :
          \A c \in 1..3 :
             result.value[i][HoldupColumns[c]] =
                MeanAtStop(call.route, result.value[i].halt_kurz_von1, HoldupColumns[c])

\* contributions returned a stop that has two rows with different holdups
\* on the route and a row on another route
C9_Witness ==
    /\ call.fn = "contributions" /\ result.status = "returned"
    /\ \E i \in 1..Len(result.value) :
          LET s == result.value[i].halt_kurz_von1
              rows == RowsOfStop(call.route, s)
          IN /\ \E j, k \in rows : data[j].holdup_stop # data[k].holdup_stop
             /\ \E j \in 1..Len(data) :
                   data[j].halt_kurz_von1 = s /\ data[j].fw_lang # call.route

(***************************************************************************)
(* Properties of main_routes_of_line (SpecSelect) and of                   *)
(* measure_of_delay_line (SpecLine).                                       *)
(***************************************************************************)
\* the distinct route labels among the rows of the line
LabelsOfLine(line) == {data[i].fw_lang : i \in {j \in 1..Len(data) : data[j].linie = line}}

\* the number of rows of the line with the route label
RowCount(line, label) ==
    Cardinality({i \in 1..Len(data) : data[i].linie = line /\ data[i].fw_lang = label})

Min(a, b) == IF a < b THEN a ELSE b

\* C7: main_routes_of_line(line) returns min(2, k) labels, k the number of
\* distinct fw_lang of the line; each returned label occurs on the line,
\* they are ordered by non-increasing row count, no label left out has a
\* strictly larger count than a returned one, and with k < 2 the call
\* returns the k labels without failing.
C7_TopTwoRoutes ==
    call.fn = "main_routes_of_line" =>
        /\ result.status = "returned"
        /\ LET r == result.value
               labels == LabelsOfLine(call.line)
           IN /\ Len(r) = Min(2, Cardinality(labels))
              /\ NoDuplicates(r)
              /\ Range(r) \subseteq labels
              /\ \A i \in 1..(Len(r) - 1) :
                    RowCount(call.line, r[i]) >= RowCount(call.line, r[i + 1])
              /\ \A l \in labels \ Range(r) : \A i \in 1..Len(r) :
                    RowCount(call.line, l) <= RowCount(call.line, r[i])

\* three routes on the line, the first returned with more rows than the
\* others, and a row of another line in the table
C7_Witness ==
    /\ call.fn = "main_routes_of_line"
    /\ Cardinality(LabelsOfLine(call.line)) = 3
    /\ Len(result.value) = 2
    /\ RowCount(call.line, result.value[1]) > RowCount(call.line, result.value[2])

\* line 2 has one route only and the call returned that one label
C7_WitnessOneRoute ==
    /\ call.fn = "main_routes_of_line"
    /\ Cardinality(LabelsOfLine(call.line)) = 1
    /\ Len(result.value) = 1

\* C5: for a line with two main routes, measure_of_delay_line returns the
\* average over both routes of delay_along_route, each divided by its own
\* number_of_stops when per_stop=True and undivided otherwise.
C5_AverageOfBothRoutes ==
    (call.fn = "measure_of_delay_line" /\ Len(call.routes) = 2) =>
        LET one == RouteMeasure(call.routes[1], data, call.which_holdup,
                                call.absolute, call.per_stop)
            other == RouteMeasure(call.routes[2], data, call.which_holdup,
                                  call.absolute, call.per_stop)
        IN (one.status = "returned" /\ other.status = "returned")
             => result = Returned(RDivInt(RAdd(one.value, other.value), 2))

(***************************************************************************)
(* Properties of freq_major_delays_route (SpecFreq).                       *)
(***************************************************************************)
freq_returned == call.fn = "freq_major_delays_route" /\ result.status = "returned"

\* C6 as stated: whenever freq_major_delays_route returns
\* (number_observations, number_major_delays, percentage),
\* number_observations > 0, number_major_delays <= number_observations and
\* percentage = 100 * number_major_delays / number_observations.
C6_AsStated ==
    freq_returned =>
        /\ result.value[1] > 0
        /\ result.value[2] <= result.value[1]
        /\ result.value[3] = Rat(100 * result.value[2], result.value[1])

\* C6 amended: ... and percentage is 100 * number_major_delays /
\* number_observations rounded to two decimals: a whole number of
\* hundredths at most half a hundredth away from it.
C6_RoundedPercentage ==
    freq_returned =>
        /\ result.value[1] > 0
        /\ result.value[2] <= result.value[1]
        /\ 100 % result.value[3].den = 0
        /\ LET hundredths == result.value[3].num * (100 \div result.value[3].den)
           IN 2 * Abs(hundredths * result.value[1] - 10000 * result.value[2])
                 <= result.value[1]

\* two of three observations at the stop are major delays
C6_Witness == freq_returned /\ result.value[1] = 3 /\ result.value[2] = 2

(***************************************************************************)
(* Properties of convert_short_to_long (SpecStops).                        *)
(***************************************************************************)
\* every short code of the table has one long name in all its rows
OneNamePerCode ==
    \A i, j \in 1..Len(data) :
        data[i].halt_kurz = data[j].halt_kurz => data[i].halt_lang = data[j].halt_lang

\* C10: for every short code that occurs in the halt_kurz column,
\* convert_short_to_long(code) succeeds and returns exactly one long name
\* with no city prefix left in it, also when the code occurs in many rows
\* and when two codes share a long name.  (Stated here for the tables in
\* which a code has the same long name in all its rows.)
C10_ResolvesEveryCode ==
    (/\ call.fn = "convert_short_to_long"
     /\ OneNamePerCode
     /\ \E i \in 1..Len(data) : data[i].halt_kurz = call.name)
    => /\ result.status = "returned"
       /\ DOMAIN result.value = {"name"}
       /\ \A i \in 1..Len(result.value.name) : result.value.name[i] # "Zürich,"

(***************************************************************************)
(* Error and loop properties of stops_on_route (SpecRoute).                *)
(***************************************************************************)
\* the traversal stands at a stop other than B that no row of the route
\* has as origin
AtMissingStop ==
    /\ call.fn = "stops_on_route"
    /\ pc = "loop"
    /\ current_stop # last_stop(call.route)
    /\ RowsOfStop(call.route, current_stop) = {}

\* C11: when the traversal reaches a stop other than B that has no row as
\* origin on the route (also when the label matches no row at all), the
\* call's next step raises the lookup-miss error for that stop; no list is
\* returned.
C11_LookupMissFails ==
    [][AtMissingStop => (/\ pc' = "raised"
                         /\ result' = Raised("KeyError", current_stop))]_vars

\* the call failed at a stop reached over a row of the route
C11_Witness ==
    /\ call.fn = "stops_on_route"
    /\ pc = "raised"
    /\ Len(stops) = 2
    /\ result = Raised("KeyError", stops[2])
    /\ RowsOfStop(call.route, stops[1]) # {}

\* the call failed at A because no row of the table has the label
C11_WitnessNoRow ==
    /\ call.fn = "stops_on_route"
    /\ pc = "raised"
    /\ data # <<>>
    /\ \A i \in 1..Len(data) : data[i].fw_lang # call.route
    /\ result = Raised("KeyError", first_stop(call.route))

\* the origin stops of the route
OriginStops(route) ==
    {data[i].halt_kurz_von1 : i \in {j \in 1..Len(data) : data[j].fw_lang = route}}

\* s is the successor path from the first stop of the route
IsSuccessorPath(route, s) ==
    /\ s # <<>> => s[1] = first_stop(route)
    /\ \A i \in 1..(Len(s) - 1) :
          /\ RowsOfStop(route, s[i]) # {}
          /\ LastWriteDestination(route, s[i]) = s[i + 1]

\* C18: whenever stops_on_route returns, the list holds no stop twice,
\* every stop in it has a row as origin on the route, and it is no longer
\* than the number of distinct origin stops of the route; at every step of
\* the loop the list built so far is the successor path from A.
C18_LoopInvariant ==
    call.fn = "stops_on_route" =>
        /\ IsSuccessorPath(call.route, stops)
        /\ pc = "loop" =>
              IsSuccessorPath(call.route, Append(stops, current_stop))
        /\ pc = "returned" =>
              /\ result.value = stops
              /\ NoDuplicates(stops)
              /\ \A i \in 1..Len(stops) : RowsOfStop(call.route, stops[i]) # {}
              /\ Len(stops) <= Cardinality(OriginStops(call.route))

\* a list of two stops was returned for a route with a third origin stop
C18_Witness ==
    /\ stops_on_route_returned
    /\ Len(stops) = 2
    /\ Cardinality(OriginStops(call.route)) = 3

(***************************************************************************)
(* Absolute and signed delay along a route (SpecConts).                    *)
(***************************************************************************)
\* a <= b and a < b for finite rationals
RLeq(a, b) == a.num * b.den <= b.num * a.den

RLess(a, b) == a.num * b.den < b.num * a.den

\* C13 as stated: for some observation table, route and holdup column,
\* delay_along_route(R, absolute=True) is strictly smaller than the
\* absolute value of delay_along_route(R, absolute=False).  (A statement
\* about the tables as a whole, evaluated before any call is made.)
C13_AsStated ==
    Idle =>
    \E d \in SeqsUpTo(ContsRows, MaxRowsConts), route \in ContsLabels, wh \in WhichHoldup :
        LET absolute == delay_along_route(route, d, wh, TRUE)
            signed == delay_along_route(route, d, wh, FALSE)
        IN /\ absolute.status = "returned"
           /\ signed.status = "returned"
           /\ RLess(absolute.value, RAbs(signed.value))

\* C13 amended: for every observation table, route and holdup column on
\* which delay_along_route returns, delay_along_route(R, absolute=True) is
\* at least the absolute value of delay_along_route(R, absolute=False).
C13_AbsoluteDominates ==
    (/\ call.fn = "delay_along_route"
     /\ call.absolute
     /\ result.status = "returned")
    => LET signed == delay_along_route(call.route, data, call.which_holdup, FALSE)
       IN /\ signed.status = "returned"
          /\ RLeq(RAbs(signed.value), result.value)

\* holdups of opposite sign at two stops: the absolute delay is strictly
\* larger than the absolute value of the signed delay, which is not zero
C13_Witness ==
    /\ call.fn = "delay_along_route"
    /\ call.absolute
    /\ result.status = "returned"
    /\ LET signed == delay_along_route(call.route, data, call.which_holdup, FALSE)
       IN /\ signed.value.num < 0
          /\ RLess(RAbs(signed.value), result.value)

C17_PerStopInBothColumns ==
    (call.fn = "table_lines" /\ ~call.per_stop /\ result.status = "returned") =>
        \A i \in 1..Len(result.value) :
            LET routes == call.routes_of[result.value[i].Line]
            IN /\ result.value[i].Delay =
                    measure_of_delay_line(routes, data, call.which_holdup, FALSE, FALSE).value
               /\ result.value[i].Deviation =
                    measure_of_delay_line(routes, data, call.which_holdup, TRUE, FALSE).value

(***************************************************************************)
(* Further properties of freq_major_delays_route (SpecFreq).               *)
(***************************************************************************)
\* the number of rows of the route recorded at the stop
RowsAtStop(route, d, stop) ==
    Len(SelectSeq(RowsOfRoute(route, d), LAMBDA r : r.halt_kurz = stop))

\* C14: for every route "A - B" with at least one stop before B, the
\* observations freq_major_delays_route counts are exactly the rows of the
\* route recorded at the stop whose successor is B, the last element of
\* stops_on_route: the call does not fail for want of a stop, and the
\* number of observations it returns is the number of those rows.
C14_CountsAtLastElement ==
    LET stops_on_this_route == stops_on_route(call.route, data)
    IN (/\ call.fn = "freq_major_delays_route"
        /\ stops_on_this_route.status = "returned"
        /\ Len(stops_on_this_route.value) >= 1) =>
           /\ result # Raised("IndexError", "stops_on_this_route[-2]")
           /\ result.status = "returned" =>
                 result.value[1] =
                     RowsAtStop(call.route, data,
                                stops_on_this_route.value[Len(stops_on_this_route.value)])

(***************************************************************************)
(* Properties of the calls that divide by a count (SpecZero).              *)
(***************************************************************************)
\* the rows freq_major_holdups_stop counts for the call: those of the
\* chosen route recorded at the stop, given by short code or long name
ObservationsAtStop ==
    LET position == IF call.reverse THEN 2 ELSE 1
    IN IF Len(call.routes) < position THEN {}
       ELSE {i \in 1..Len(data) :
                /\ data[i].fw_lang = call.routes[position]
                /\ (<<data[i].halt_kurz>> = call.stop \/ data[i].halt_lang = call.stop)}

\* freq_major_holdups_stop with no observation fails
C12_HoldupsStopFails ==
    (call.fn = "freq_major_holdups_stop" /\ ObservationsAtStop = {}) =>
        result.status = "raised"

\* freq_major_delays_route with no observation at its stop fails
C12_DelaysRouteFails ==
    LET stops_on_this_route == stops_on_route(call.route, data)
    IN (/\ call.fn = "freq_major_delays_route"
        /\ stops_on_this_route.status = "returned"
        /\ Len(stops_on_this_route.value) >= 2
        /\ RowsAtStop(call.route, data,
                      stops_on_this_route.value[Len(stops_on_this_route.value) - 1]) = 0) =>
           result = Raised("ZeroDivisionError", "division by zero")

\* measure_of_delay_line for a line with no route fails
C12_MeasureNoRouteFails ==
    (call.fn = "measure_of_delay_line" /\ LabelsOfLine(call.line) = {}) =>
        result.status = "raised"

\* C12: no percentage or average is returned from a zero denominator:
\* freq_major_holdups_stop and freq_major_delays_route called where zero
\* observations match, and measure_of_delay_line called for a line with no
\* routes, each fail with an error instead of returning a value (a number,
\* NaN or None).
C12_ZeroDenominatorFails ==
    /\ C12_HoldupsStopFails
    /\ C12_DelaysRouteFails
    /\ C12_MeasureNoRouteFails

(***************************************************************************)
(* Properties of freq_major_delays_line (SpecFreqLine).                    *)
(***************************************************************************)
\* the call's freq_major_delays_route of the i-th most frequent route
RouteCounts(i) ==
    freq_major_delays_route(call.routes[i], data, call.cutoff, call.per_stop, call.what)

\* C15: freq_major_delays_line on a line with fewer than two distinct
\* routes fails with the unpacking error and returns no percentage; on a
\* line with two main routes it returns
\* 100 * (major1 + major2) / (observations1 + observations2), the counts
\* taken from freq_major_delays_route of each route.
C15_UnpacksTwoRoutes ==
    call.fn = "freq_major_delays_line" =>
        IF Cardinality(LabelsOfLine(call.line)) < 2
        THEN result = Raised("ValueError", "not enough values to unpack")
        ELSE (RouteCounts(1).status = "returned" /\ RouteCounts(2).status = "returned") =>
                 result = Returned(Rat(100 * (RouteCounts(1).value[2] + RouteCounts(2).value[2]),
                                       RouteCounts(1).value[1] + RouteCounts(2).value[1]))

\* both routes have observations, in different numbers and with different
\* shares of major delays, and the call returns
C15_Witness ==
    /\ call.fn = "freq_major_delays_line"
    /\ result.status = "returned"
    /\ RouteCounts(1).value[1] # RouteCounts(2).value[1]
    /\ RouteCounts(1).value[3] # RouteCounts(2).value[3]

\* the line has one route only and the call fails
C15_WitnessOneRoute ==
    /\ call.fn = "freq_major_delays_line"
    /\ Cardinality(LabelsOfLine(call.line)) = 1
    /\ result.status = "raised"

====
